---- MODULE Spec2Model ----
(***************************************************************************)
(* A model of contrafact: facts (constraints) over values, their check,    *)
(* mutate, advance, satisfy and build operations, the primitive facts      *)
(* (eq, in_slice, brute, the older EqFact / InFact), the structural lifts  *)
(* (lens, prism) and the ordered composite.                                *)
(***************************************************************************)
EXTENDS Integers, Sequences, FiniteSets, TLC

VARIABLES
    fact,    \* the fact being operated on (a tree; stateful members carry state)
    obj,     \* the subject value (`obj` of check / mutate / satisfy)
    g,       \* the generator: [check, bytes]
    pc,      \* position of the running call
    op,      \* the top-level operation that was called
    fact0,   \* the fact as given to the call
    obj0,    \* the subject as given to the call
    g0,      \* the generator as given to the call
    hist,    \* satisfy: the check result of every attempt so far, in order
    seq,     \* build_seq: the items built so far, in order
    chk,     \* the Check returned by the last check (a list of violations)
    rep,     \* the result of the last mutate ([st, val, g, why])
    last_failure, \* satisfy: the violations of the last failed check
    msg,     \* what a panic reported ([kind |-> "none"] while there is none)
    iter,    \* satisfy: the loop index; EqFact::check: the frames on the stack
    subject, \* the subject's type
    optimised \* the build: TRUE when the compiler made the call at predicates.rs:71 a jump

vars == <<fact, obj, g, pc, op, fact0, obj0, g0, hist, seq, chk, rep, last_failure,
          msg, iter, subject, optimised>>

---------------------------------------------------------------------------
(* Bounds of the model *)

\* longest entropy buffer handed to a generator (in draws)
MaxEntropy == 2

\* longest entropy buffer of the Omega runs (each draw is a whole Pi)
OmegaEntropy == 1

\* the fixed iteration limit of brute facts (brute.rs uses it at lines 52 and
\* 63; the model runs it scaled down)
BRUTE_ITERATION_LIMIT == 2

\* frames the stack holds before a runaway recursion overflows it
StackFrames == 3

\* fact.rs:5
SATISFY_ATTEMPTS == 10

---------------------------------------------------------------------------
(* Subject types.  A type is named by a string; its values are listed in a  *)
(* fixed order so that one unit of entropy decodes to one value.            *)

U32 == 0 .. 2

\* prism.rs:108-111: enum E { X(u32), Y(u32) }
EValue(tag, n) == [tag |-> tag, n |-> n]

\* complex.rs:4, 199-209: Id and the data strings the test uses
Ids == {3, 11}
Data == {"cheese", "spartacus"}
IdSeq == <<3, 11>>
DataSeq == <<"cheese", "spartacus">>

\* complex.rs:88-91: struct Beta { id, data }
Beta(id, data) == [id |-> id, data |-> data]
\* (the Betas of the model all carry the same data string)
BetaSeq == << Beta(3, "cheese"), Beta(11, "cheese") >>

\* complex.rs:66-69: enum Alpha { Beta { id, beta, data }, Nil { id, data } }
AlphaBeta(id, beta, data) == [tag |-> "Beta", id |-> id, beta |-> beta, data |-> data]
AlphaNil(id, data) == [tag |-> "Nil", id |-> id, data |-> data]

\* Option<T>: None is the empty tuple, Some(t) the one-element tuple
None == << >>
Some(t) == << t >>

\* complex.rs:123: struct Pi(Alpha, Option<Beta>)
Pi(alpha, beta) == [alpha |-> alpha, beta |-> beta]

\* complex.rs:8-11: enum Omega { AlphaBeta { id, alpha, beta }, Alpha { id, alpha } }
OmegaAlphaBeta(id, alpha, beta) == [tag |-> "AlphaBeta", id |-> id, alpha |-> alpha, beta |-> beta]
OmegaAlpha(id, alpha) == [tag |-> "Alpha", id |-> id, alpha |-> alpha]

\* The b-th value of a type (derive(Arbitrary): the variant and the fields
\* are decoded from the entropy, here from the digits of one unit)
ArbU32(b) == b % 3
ArbE(b) == EValue(IF (b \div 3) % 2 = 0 THEN "X" ELSE "Y", b % 3)
ArbBeta(b) == BetaSeq[(b % 2) + 1]
ArbAlpha(b) ==
    LET id   == IdSeq[(b % 2) + 1]
        data == DataSeq[((b \div 2) % 2) + 1]
        v    == (b \div 4) % 3
    IN  IF v = 2 THEN AlphaNil(id, data) ELSE AlphaBeta(id, BetaSeq[v + 1], data)
ArbOptBeta(b) == IF b % 3 = 2 THEN None ELSE Some(BetaSeq[(b % 3) + 1])
ArbPi(b) == Pi(ArbAlpha(b % 12), ArbOptBeta((b \div 12) % 3))

\* number of values of a type
TypeSize(ty) ==
    CASE ty = "u32" -> 3
      [] ty = "E"   -> 6
      [] ty = "Pi"  -> 36

\* T::arbitrary on one unit of entropy
Arb(ty, b) ==
    CASE ty = "u32" -> ArbU32(b)
      [] ty = "E"   -> ArbE(b)
      [] ty = "Pi"  -> ArbPi(b)

Universe(ty) == { Arb(ty, b) : b \in 0 .. (TypeSize(ty) - 1) }

---------------------------------------------------------------------------
(* Generator: an entropy cursor and a mode flag.                            *)

\* a Build-mode generator over a caller-supplied buffer
Generator(bytes) == [check |-> FALSE, bytes |-> bytes]

\* Generator::checker(): CheckOnly, no usable entropy
checker == [check |-> TRUE, bytes |-> << >>]

\* results of a mutation: Ok(val), or an error / panic with its text
Ok(val, gen) == [st |-> "Ok", val |-> val, g |-> gen, why |-> ""]
Err(kind, val, gen, why) == [st |-> kind, val |-> val, g |-> gen, why |-> why]

\* draw<T>(): an arbitrary T from the remaining entropy
GenArbitrary(gen, ty, cur, reason) ==
    IF gen.check THEN Err("Check", cur, gen, reason)
    ELSE IF gen.bytes = << >> THEN Err("Exhausted", cur, gen, "exhausted")
    ELSE Ok(Arb(ty, Head(gen.bytes)), [gen EXCEPT !.bytes = Tail(gen.bytes)])

\* choose(candidates): one element of a non-empty ordered set
GenChoose(gen, choices, cur, reason) ==
    IF choices = << >> THEN Err("EmptyCandidates", cur, gen, "Empty choices")
    ELSE IF gen.check THEN Err("Check", cur, gen, reason)
    ELSE IF gen.bytes = << >> THEN Err("Exhausted", cur, gen, "exhausted")
    ELSE Ok(choices[(Head(gen.bytes) % Len(choices)) + 1],
            [gen EXCEPT !.bytes = Tail(gen.bytes)])

(* arbitrary::Unstructured, the entropy source of fact.rs, prism.rs and
   predicates.rs: the sets hold the outcomes of one draw *)

\* Unstructured on a buffer that ran out pads the integers it decodes with
\* zeroes and reports no error: every subject here is decoded from integers
UArbitrary(gen, t, cur) ==
    IF gen.bytes # << >>
    THEN { Ok(Arb(t, Head(gen.bytes)), [gen EXCEPT !.bytes = Tail(gen.bytes)]) }
    ELSE { Ok(Arb(t, 0), gen) }

\* (a choice among one candidate draws nothing)
UChoose(gen, choices, cur) ==
    IF choices = << >> THEN { Err("EmptyCandidates", cur, gen, "Empty choices") }
    ELSE IF Len(choices) = 1 THEN { Ok(choices[1], gen) }
    ELSE IF gen.bytes # << >>
    THEN { Ok(choices[(Head(gen.bytes) % Len(choices)) + 1],
              [gen EXCEPT !.bytes = Tail(gen.bytes)]) }
    ELSE { Ok(choices[1], gen) }

---------------------------------------------------------------------------
(* Structural accessors (caller-authored projections).                      *)

\* the optional sub-part an accessor reaches in a whole
Get(acc, o) ==
    CASE acc = "E::x" -> IF o.tag = "X" THEN Some(o.n) ELSE None
      [] acc = "E::y" -> IF o.tag = "Y" THEN Some(o.n) ELSE None
      [] acc = "E::n" -> Some(o.n)
      [] acc = "Alpha::id" -> Some(o.id)
      [] acc = "Alpha::data" -> Some(o.data)
      [] acc = "Beta::id" -> Some(o.id)
      [] acc = "Pi::alpha" -> Some(o.alpha)
      [] acc = "Pi::beta" -> o.beta
      [] acc = "Omega::id" -> Some(o.id)
      [] acc = "Omega -> Pi" ->
           IF o.tag = "AlphaBeta" THEN Some(Pi(o.alpha, Some(o.beta)))
           ELSE Some(Pi(o.alpha, None))

\* the whole with the sub-part replaced
Set(acc, o, t) ==
    CASE acc = "E::x" -> [o EXCEPT !.n = t]
      [] acc = "E::y" -> [o EXCEPT !.n = t]
      [] acc = "E::n" -> [o EXCEPT !.n = t]
      [] acc = "Alpha::id" -> [o EXCEPT !.id = t]
      [] acc = "Alpha::data" -> [o EXCEPT !.data = t]
      [] acc = "Beta::id" -> [o EXCEPT !.id = t]
      [] acc = "Pi::alpha" -> [o EXCEPT !.alpha = t]
      [] acc = "Pi::beta" -> [o EXCEPT !.beta = Some(t)]
      [] acc = "Omega::id" -> [o EXCEPT !.id = t]
      [] acc = "Omega -> Pi" ->
           IF t.beta # None THEN OmegaAlphaBeta(o.id, t.alpha, t.beta[1])
           ELSE OmegaAlpha(o.id, t.alpha)

---------------------------------------------------------------------------
(* Predicates handed to brute facts.                                        *)

\* complex.rs:128-132: the closure of pi_beta_match
PiBetaMatches(p) ==
    CASE p.alpha.tag = "Beta" /\ p.beta # None -> p.alpha.beta = p.beta[1]
      [] p.alpha.tag = "Nil" /\ p.beta = None -> TRUE
      [] OTHER -> FALSE

Pred(name, v) ==
    CASE name = "never" -> FALSE
      [] name = "even" -> v % 2 = 0
      [] name = "is_X" -> v.tag = "X"
      [] name = "zero_only_in_Y" -> (v.n = 0 => v.tag = "Y")
      [] name = "pi_beta_match" -> PiBetaMatches(v)

---------------------------------------------------------------------------
(* Facts.  A fact is a record naming its kind and carrying its parts.       *)

eq(label, c) == [kind |-> "eq", label |-> label, constant |-> c]
in_slice(context, slice) == [kind |-> "in_slice", context |-> context, slice |-> slice]
brute(reason, f, ty) == [kind |-> "brute", reason |-> reason, f |-> f, ty |-> ty]
consecutive(ctr) == [kind |-> "consecutive", ctr |-> ctr]
prism(label, p, inner) == [kind |-> "prism", label |-> label, prism |-> p, inner_fact |-> inner]
lens(label, l, inner) == [kind |-> "lens", label |-> label, lens |-> l, inner_fact |-> inner]
facts(fs) == [kind |-> "facts", facts |-> fs]

\* slice.contains(&obj)
Contains(slice, x) == \E i \in 1 .. Len(slice) : slice[i] = x

\* Check::map: transform every message
MapCheck(c, prefix) == [i \in 1 .. Len(c) |-> prefix \o c[i]]

RECURSIVE Check(_, _)
RECURSIVE Mutate(_, _, _)
RECURSIVE Advance(_)

(* ---- eq: equality with a constant ---- *)

EqReason(f, o) ==
    f.label \o ": expected " \o ToString(o) \o " == " \o ToString(f.constant)

\* violation iff obj != constant
EqCheck(f, o) == IF o # f.constant THEN << EqReason(f, o) >> ELSE << >>

\* overwrite with the constant, no entropy consumed; a CheckOnly generator
\* turns the change into a failure
EqMutate(f, o, gen) ==
    IF o = f.constant THEN Ok(o, gen)
    ELSE IF gen.check THEN Err("Check", o, gen, EqReason(f, o))
    ELSE Ok(f.constant, gen)

(* ---- in_slice: membership ---- *)

InSliceReason(f, o) ==
    f.context \o ": expected " \o ToString(o) \o " to be contained in "
        \o ToString(f.slice)

\* violation iff the value is absent from the candidate set
InSliceCheck(f, o) ==
    IF ~Contains(f.slice, o) THEN << InSliceReason(f, o) >> ELSE << >>

InSliceMutate_always(f, o, gen) == GenChoose(gen, f.slice, o, InSliceReason(f, o))

\* in_slice.rs:10-20
InSliceMutate(f, o, gen) ==
    IF ~Contains(f.slice, o)
    THEN GenChoose(gen, f.slice, o, InSliceReason(f, o))
    ELSE Ok(o, gen)

(* ---- brute: a predicate, met by resampling ---- *)

\* brute.rs:41: the predicate's verdict as Result<(), String>
BruteF(f, o) == IF Pred(f.f, o) THEN << >> ELSE << f.reason >>

\* violation iff the predicate is false, with the reason
BruteCheck(f, o) == BruteF(f, o)

BrutePanic(last_reason) ==
    "Exceeded iteration limit of " \o ToString(BRUTE_ITERATION_LIMIT)
        \o " while attempting to meet a BruteFact. Last failure reason: "
        \o last_reason

RECURSIVE BruteLoop_unbounded(_, _, _, _, _)
BruteLoop_unbounded(f, o, gen, k, last_reason) ==
    LET r == BruteF(f, o) IN
    IF r # << >>
    THEN LET a == GenArbitrary(gen, f.ty, o, r[1]) IN
         IF a.st # "Ok" THEN a
         ELSE BruteLoop_unbounded(f, a.val, a.g, k + 1, r[1])
    ELSE Ok(o, gen)

RECURSIVE BruteLoop(_, _, _, _, _)
\* brute.rs:52-64: iteration k of `for _ in 0..=BRUTE_ITERATION_LIMIT`
BruteLoop(f, o, gen, k, last_reason) ==
    IF k > BRUTE_ITERATION_LIMIT
    THEN Err("Panic", o, gen, BrutePanic(last_reason))
    ELSE LET r == BruteF(f, o) IN
         IF r # << >>
         THEN LET a == GenArbitrary(gen, f.ty, o, r[1]) IN
              IF a.st # "Ok" THEN a
              ELSE BruteLoop(f, a.val, a.g, k + 1, r[1])
         ELSE Ok(o, gen)

\* brute.rs:50-65
BruteMutate(f, o, gen) == BruteLoop(f, o, gen, 0, "")

(* ---- consecutive: a stateful fact holding a running counter ---- *)

ConsecutiveReason(f, o) ==
    "expected " \o ToString(o) \o " == " \o ToString(f.ctr)

ConsecutiveCheck(f, o) == IF o # f.ctr THEN << ConsecutiveReason(f, o) >> ELSE << >>

ConsecutiveMutate(f, o, gen) ==
    IF o = f.ctr THEN Ok(o, gen)
    ELSE IF gen.check THEN Err("Check", o, gen, ConsecutiveReason(f, o))
    ELSE Ok(f.ctr, gen)

ConsecutiveAdvance(f) == [f EXCEPT !.ctr = f.ctr + 1]

(* ---- prism: 0-or-1 target ---- *)

PrismCheck_absent_fails(f, o) ==
    LET t == Get(f.prism, o) IN
    IF t # None
    THEN MapCheck(Check(f.inner_fact, t[1]), "prism(" \o f.label \o ") > ")
    ELSE << "prism(" \o f.label \o ") > absent" >>

\* prism.rs:71-86
PrismCheck(f, o) ==
    LET t == Get(f.prism, o) IN
    IF t # None
    THEN MapCheck(Check(f.inner_fact, t[1]), "prism(" \o f.label \o ") > ")
    ELSE << >>

PrismMutate_skips(f, o, gen) == Ok(o, gen)

\* prism.rs:89-93: the inner fact writes through the reference the prism
\* returns, so what it wrote stays in the whole also when it does not end Ok
PrismMutate(f, o, gen) ==
    LET t == Get(f.prism, o) IN
    IF t # None
    THEN LET r == Mutate(f.inner_fact, t[1], gen) IN
         IF r.st = "Ok" THEN Ok(Set(f.prism, o, r.val), r.g)
         ELSE Err(r.st, Set(f.prism, o, r.val), r.g, r.why)
    ELSE Ok(o, gen)

\* prism.rs:96-98: advance takes no subject and always reaches the inner fact
PrismAdvance(f) == [f EXCEPT !.inner_fact = Advance(f.inner_fact)]

(* ---- lens: mandatory single target ---- *)

LensCheck(f, o) ==
    MapCheck(Check(f.inner_fact, Get(f.lens, o)[1]), "lens(" \o f.label \o ") > ")

LensMutate(f, o, gen) ==
    LET r == Mutate(f.inner_fact, Get(f.lens, o)[1], gen) IN
    IF r.st = "Ok" THEN Ok(Set(f.lens, o, r.val), r.g)
    ELSE Err(r.st, o, r.g, r.why)

LensAdvance(f) == [f EXCEPT !.inner_fact = Advance(f.inner_fact)]

(* ---- optical: 0..N targets reached by a traversal ---- *)

\* optical.rs:8-21
optical(label, optics, inner) ==
    [kind |-> "optical", label |-> label, optics |-> optics, inner_fact |-> inner]

\* a whole with a list of items and a part no traversal of items reaches
Whole(items, rest) == [items |-> items, rest |-> rest]

\* obj.traverse_ref(optics): the targeted elements, in traversal order
Traverse(optics, o) ==
    CASE optics = "items" -> o.items
      [] optics = "rest" -> << o.rest >>

\* the write through the i-th reference of obj.traverse_mut(optics)
TraverseSet(optics, o, i, v) ==
    CASE optics = "items" -> [o EXCEPT !.items[i] = v]
      [] optics = "rest" -> [o EXCEPT !.rest = v]

\* optical.rs:73-77: the label carries the index when there are several targets
OpticalLabel(f, n, i) ==
    IF n > 1 THEN f.label \o "[" \o ToString(i) \o "]" ELSE f.label

RECURSIVE OpticalCheckFrom(_, _, _)
\* optical.rs:70-83: the checks of the elements from the i-th on, flattened
OpticalCheckFrom(f, o, i) ==
    LET imgs == Traverse(f.optics, o) IN
    IF i > Len(imgs) THEN << >>
    ELSE MapCheck(Check(f.inner_fact, imgs[i]),
                  "lens(" \o OpticalLabel(f, Len(imgs), i - 1) \o "){" \o f.optics \o "} > ")
           \o OpticalCheckFrom(f, o, i + 1)

\* optical.rs:68-85
OpticalCheck(f, o) == OpticalCheckFrom(f, o, 1)

OpticalMutateImg_from_sibling(f, o, gen, i) ==
    LET imgs == Traverse(f.optics, o)
        r == Mutate(f.inner_fact, imgs[IF i > 1 THEN i - 1 ELSE i], gen)
    IN  IF r.st = "Ok" THEN Ok(TraverseSet(f.optics, o, i, r.val), r.g)
        ELSE Err(r.st, o, r.g, r.why)

\* optical.rs:96: *img = self.inner_fact.mutate(img.clone(), g)
OpticalMutateImg(f, o, gen, i) ==
    LET imgs == Traverse(f.optics, o)
        r == Mutate(f.inner_fact, imgs[i], gen)
    IN  IF r.st = "Ok" THEN Ok(TraverseSet(f.optics, o, i, r.val), r.g)
        ELSE Err(r.st, o, r.g, r.why)

RECURSIVE OpticalMutateFrom(_, _, _, _)
\* optical.rs:95-97: the loop over traverse_mut, from the i-th element on
OpticalMutateFrom(f, o, gen, i) ==
    IF i > Len(Traverse(f.optics, o)) THEN Ok(o, gen)
    ELSE LET r == OpticalMutateImg(f, o, gen, i) IN
         IF r.st # "Ok" THEN r
         ELSE OpticalMutateFrom(f, r.val, r.g, i + 1)

\* optical.rs:94-99
OpticalMutate(f, o, gen) == OpticalMutateFrom(f, o, gen, 1)

RECURSIVE OpticalAdvanceFrom(_, _)
OpticalAdvanceFrom(inner, n) ==
    IF n = 0 THEN inner ELSE OpticalAdvanceFrom(Advance(inner), n - 1)

\* optical.rs:102-106: the inner fact advances once per targeted element
OpticalAdvance(f, o) ==
    [f EXCEPT !.inner_fact = OpticalAdvanceFrom(f.inner_fact, Len(Traverse(f.optics, o)))]

(* ---- the ordered composite: impl Fact<T> for &mut [F] ---- *)

RECURSIVE SliceCheck_first_failure(_, _)
SliceCheck_first_failure(fs, o) ==
    IF fs = << >> THEN << >>
    ELSE IF Check(Head(fs), o) # << >> THEN Check(Head(fs), o)
    ELSE SliceCheck_first_failure(Tail(fs), o)

RECURSIVE SliceCheck(_, _)
\* fact.rs:118-123: flat_map of the members' checks
SliceCheck(fs, o) ==
    IF fs = << >> THEN << >>
    ELSE Check(Head(fs), o) \o SliceCheck(Tail(fs), o)

RECURSIVE SliceMutate_reversed(_, _, _)
SliceMutate_reversed(fs, o, gen) ==
    IF fs = << >> THEN Ok(o, gen)
    ELSE LET r == Mutate(fs[Len(fs)], o, gen) IN
         IF r.st # "Ok" THEN r
         ELSE SliceMutate_reversed(SubSeq(fs, 1, Len(fs) - 1), r.val, r.g)

RECURSIVE SliceMutate(_, _, _)
\* fact.rs:126-130: each member mutates the previous member's output
SliceMutate(fs, o, gen) ==
    IF fs = << >> THEN Ok(o, gen)
    ELSE LET r == Mutate(Head(fs), o, gen) IN
         IF r.st # "Ok" THEN r
         ELSE SliceMutate(Tail(fs), r.val, r.g)

\* advance = broadcast to every member
SliceAdvance(fs) == [i \in 1 .. Len(fs) |-> Advance(fs[i])]

(* ---- dispatch on the kind of fact ---- *)

Check(f, o) ==
    CASE f.kind = "eq" -> EqCheck(f, o)
      [] f.kind = "in_slice" -> InSliceCheck(f, o)
      [] f.kind = "brute" -> BruteCheck(f, o)
      [] f.kind = "consecutive" -> ConsecutiveCheck(f, o)
      [] f.kind = "prism" -> PrismCheck(f, o)
      [] f.kind = "lens" -> LensCheck(f, o)
      [] f.kind = "optical" -> OpticalCheck(f, o)
      [] f.kind = "facts" -> SliceCheck(f.facts, o)

Mutate(f, o, gen) ==
    CASE f.kind = "eq" -> EqMutate(f, o, gen)
      [] f.kind = "in_slice" -> InSliceMutate(f, o, gen)
      [] f.kind = "brute" -> BruteMutate(f, o, gen)
      [] f.kind = "consecutive" -> ConsecutiveMutate(f, o, gen)
      [] f.kind = "prism" -> PrismMutate(f, o, gen)
      [] f.kind = "lens" -> LensMutate(f, o, gen)
      [] f.kind = "optical" -> OpticalMutate(f, o, gen)
      [] f.kind = "facts" -> SliceMutate(f.facts, o, gen)

Advance(f) ==
    CASE f.kind = "consecutive" -> ConsecutiveAdvance(f)
      [] f.kind = "prism" -> PrismAdvance(f)
      [] f.kind = "lens" -> LensAdvance(f)
      [] f.kind = "facts" -> [f EXCEPT !.facts = SliceAdvance(f.facts)]
      [] OTHER -> f

---------------------------------------------------------------------------
(* The facts and inputs the model runs.                                     *)

\* entropy buffers of at most n units for a subject type
Entropies(t, n) == UNION { [1 .. k -> 0 .. (TypeSize(t) - 1)] : k \in 0 .. n }

\* enough entropy for build plus every iteration of one brute mutation
AmpleEntropy == BRUTE_ITERATION_LIMIT + 2

FactsU32 ==
    { in_slice("in_slice", <<1, 2>>),
      in_slice("in_slice", <<0>>),
      brute("never", "never", "u32"),
      brute("is even", "even", "u32"),
      eq("must be 1", 1),
      consecutive(0) }

\* prism.rs:134-137
PrismTestFacts ==
    facts(<< prism("E::x", "E::x", eq("must be 1", 1)),
             prism("E::y", "E::y", eq("must be 2", 2)) >>)

\* a weak brute fact and strong structural facts
WeakA == brute("is X", "is_X", "E")
StrongPrism == prism("E::x", "E::x", eq("must be 1", 1))
StrongLens == lens("E::n", "E::n", eq("must be 1", 1))

FactsE ==
    { PrismTestFacts,
      prism("E::x", "E::x", eq("must be 1", 1)),
      prism("E::x", "E::x", brute("never", "never", "u32")),
      prism("E::x", "E::x", in_slice("in_slice", <<1, 2>>)),
      prism("E::y", "E::y", consecutive(0)),
      facts(<< WeakA, StrongPrism >>),
      facts(<< StrongPrism, WeakA >>),
      facts(<< WeakA, StrongLens >>),
      facts(<< StrongLens, WeakA >>),
      facts(<< brute("zero only in Y", "zero_only_in_Y", "E"),
               prism("E::x", "E::x", eq("must be 0", 0)) >>),
      facts(<< lens("E::n", "E::n", eq("must be 1", 1)),
               lens("E::n", "E::n", eq("must be 2", 2)) >>) }

Scenarios ==
    { <<"u32", f>> : f \in FactsU32 } \cup { <<"E", f>> : f \in FactsE }

\* (a brute fact, alone or under a prism, gets enough to reach its limit)
EntropyLen(f) ==
    IF f.kind = "brute" \/ (f.kind = "prism" /\ f.inner_fact.kind = "brute")
    THEN AmpleEntropy ELSE MaxEntropy

NoResult(o) == [st |-> "none", val |-> o, g |-> checker, why |-> ""]
NoPanic == [kind |-> "none"]

InitWith(sc, o, bytes) ==
    /\ subject = sc[1]
    /\ fact = sc[2]
    /\ fact0 = sc[2]
    /\ obj = o
    /\ obj0 = o
    /\ g = Generator(bytes)
    /\ g0 = Generator(bytes)
    /\ pc = "idle"
    /\ op = "none"
    /\ hist = << >>
    /\ seq = << >>
    /\ chk = << >>
    /\ rep = NoResult(o)
    /\ last_failure = << >>
    /\ msg = NoPanic
    /\ iter = 0

Init ==
    \E sc \in Scenarios :
        \E o \in Universe(sc[1]) :
            \E bytes \in Entropies(sc[1], EntropyLen(sc[2])) :
                InitWith(sc, o, bytes) /\ optimised = FALSE

---------------------------------------------------------------------------
(* Operations on a fact.                                                    *)

\* how a mutation that did not return Ok ends the call
PanicOf(r) == [kind |-> "brute", text |-> r.why]

\* fact.check(&obj)
CheckOp ==
    /\ pc = "idle"
    /\ op' = "check"
    /\ chk' = Check(fact, obj)
    /\ pc' = "checked"
    /\ UNCHANGED <<fact, obj, g, fact0, obj0, g0, hist, seq, rep, last_failure, msg, iter, subject, optimised>>

\* fact.mutate(obj.clone()) replayed under Generator::checker()
ReplayOp ==
    /\ pc = "checked"
    /\ rep' = Mutate(fact, obj, checker)
    /\ pc' = "replayed"
    /\ UNCHANGED <<fact, obj, g, op, fact0, obj0, g0, hist, seq, chk, last_failure, msg, iter, subject, optimised>>

\* fact.mutate(obj, g), once
MutateOp ==
    /\ pc = "idle"
    /\ op' = "mutate"
    /\ LET r == Mutate(fact, obj, g) IN
        /\ rep' = r
        /\ obj' = r.val
        /\ g' = r.g
        /\ pc' = CASE r.st = "Ok" -> "mutated"
                   [] r.st = "Panic" -> "panicked"
                   [] OTHER -> "failed"
        /\ msg' = IF r.st = "Panic" THEN PanicOf(r) ELSE msg
    /\ UNCHANGED <<fact, fact0, obj0, g0, hist, seq, chk, last_failure, iter, subject, optimised>>

\* fact.check(&obj) on the mutated value (complex.rs:221)
CheckAfterMutate ==
    /\ pc = "mutated"
    /\ chk' = Check(fact, obj)
    /\ pc' = "mutate_checked"
    /\ UNCHANGED <<fact, obj, g, op, fact0, obj0, g0, hist, seq, rep, last_failure, msg, iter, subject, optimised>>

\* fact.advance()
AdvanceOp ==
    /\ pc = "idle"
    /\ op' = "advance"
    /\ fact' = Advance(fact)
    /\ pc' = "advanced"
    /\ UNCHANGED <<obj, g, fact0, obj0, g0, hist, seq, chk, rep, last_failure, msg, iter, subject, optimised>>

(* ---- the loop of a brute fact's mutation, one iteration at a time ---- *)

\* brute.rs:50-51: entry of the closure of brute_labeled
BruteCall ==
    /\ pc = "idle"
    /\ fact.kind = "brute"
    /\ op' = "brute_mutate"
    /\ iter' = 0
    /\ last_failure' = << "" >>
    /\ pc' = "brute_loop"
    /\ UNCHANGED <<fact, obj, g, fact0, obj0, g0, hist, seq, chk, rep, msg, subject, optimised>>

\* brute.rs:52-59: one iteration of `for _ in 0..=BRUTE_ITERATION_LIMIT`
BruteIteration ==
    /\ pc = "brute_loop"
    /\ iter <= BRUTE_ITERATION_LIMIT
    /\ LET r == BruteF(fact, obj) IN
        IF r # << >>
        THEN LET a == GenArbitrary(g, fact.ty, obj, r[1]) IN
             /\ last_failure' = r
             /\ rep' = a
             /\ IF a.st # "Ok"
                THEN /\ pc' = "failed"
                     /\ UNCHANGED <<obj, g, iter>>
                ELSE /\ obj' = a.val
                     /\ g' = a.g
                     /\ iter' = iter + 1
                     /\ pc' = "brute_loop"
        ELSE /\ rep' = Ok(obj, g)
             /\ pc' = "mutated"
             /\ UNCHANGED <<obj, g, iter, last_failure>>
    /\ UNCHANGED <<fact, op, fact0, obj0, g0, hist, seq, chk, msg, subject, optimised>>

\* brute.rs:61-64: the loop ran out
BrutePanics ==
    /\ pc = "brute_loop"
    /\ iter > BRUTE_ITERATION_LIMIT
    /\ pc' = "panicked"
    /\ msg' = [kind |-> "brute", text |-> BrutePanic(last_failure[1])]
    /\ UNCHANGED <<fact, obj, g, op, fact0, obj0, g0, hist, seq, chk, rep, last_failure, iter, subject, optimised>>

(* ---- satisfy and build (fact.rs:33-54) ---- *)

\* fact.rs:33-34: entry of satisfy
SatisfyCall ==
    /\ pc = "idle"
    /\ op' = "satisfy"
    /\ last_failure' = << >>
    /\ iter' = 0
    /\ pc' = "satisfy_loop"
    /\ UNCHANGED <<fact, obj, g, fact0, obj0, g0, hist, seq, chk, rep, msg, subject, optimised>>

\* fact.rs:50-52: build draws an arbitrary subject and satisfies it
BuildCall ==
    /\ pc = "idle"
    /\ op' = "build"
    /\ \E a \in UArbitrary(g, subject, obj) :
        IF a.st = "Ok"
        THEN /\ obj' = a.val
             /\ g' = a.g
             /\ pc' = "satisfy_loop"
             /\ msg' = msg
        ELSE /\ pc' = "panicked"
             /\ msg' = [kind |-> "unwrap", text |-> a.why]
             /\ UNCHANGED <<obj, g>>
    /\ last_failure' = << >>
    /\ iter' = 0
    /\ UNCHANGED <<fact, fact0, obj0, g0, hist, seq, chk, rep, subject, optimised>>

SatisfyMutate_unbounded ==
    /\ pc = "satisfy_loop"
    /\ LET r == Mutate(fact, obj, g) IN
        /\ rep' = r
        /\ obj' = r.val
        /\ g' = r.g
        /\ pc' = CASE r.st = "Ok" -> "satisfy_check"
                   [] r.st = "Panic" -> "panicked"
                   [] OTHER -> "failed"
        /\ msg' = IF r.st = "Panic" THEN PanicOf(r) ELSE msg
    /\ UNCHANGED <<fact, op, fact0, obj0, g0, hist, seq, chk, last_failure, iter, subject, optimised>>

\* fact.rs:35-36: one more attempt: self.mutate(obj, u)
SatisfyMutate ==
    /\ pc = "satisfy_loop"
    /\ iter < SATISFY_ATTEMPTS
    /\ LET r == Mutate(fact, obj, g) IN
        /\ rep' = r
        /\ obj' = r.val
        /\ g' = r.g
        /\ pc' = CASE r.st = "Ok" -> "satisfy_check"
                   [] r.st = "Panic" -> "panicked"
                   [] OTHER -> "failed"
        /\ msg' = IF r.st = "Panic" THEN PanicOf(r) ELSE msg
    /\ UNCHANGED <<fact, op, fact0, obj0, g0, hist, seq, chk, last_failure, iter, subject, optimised>>

SatisfyCheck_returns_dirty ==
    /\ pc = "satisfy_check"
    /\ LET c == Check(fact, obj) IN
        /\ chk' = c
        /\ hist' = Append(hist, c)
        /\ pc' = "returned"
        /\ UNCHANGED <<last_failure, iter>>
    /\ UNCHANGED <<fact, obj, g, op, fact0, obj0, g0, seq, rep, msg, subject, optimised>>

\* fact.rs:37-41: check the attempt; return when it is clean
SatisfyCheck ==
    /\ pc = "satisfy_check"
    /\ LET c == Check(fact, obj) IN
        /\ chk' = c
        /\ hist' = Append(hist, c)
        /\ IF c # << >>
           THEN /\ last_failure' = c
                /\ iter' = iter + 1
                /\ pc' = "satisfy_loop"
           ELSE /\ pc' = "returned"
                /\ UNCHANGED <<last_failure, iter>>
    /\ UNCHANGED <<fact, obj, g, op, fact0, obj0, g0, seq, rep, msg, subject, optimised>>

\* fact.rs:43-46: the attempts are used up
SatisfyPanic ==
    /\ pc = "satisfy_loop"
    /\ iter >= SATISFY_ATTEMPTS
    /\ pc' = "panicked"
    /\ msg' = [kind |-> "satisfy", iterations |-> SATISFY_ATTEMPTS,
               last_failure |-> last_failure]
    /\ UNCHANGED <<fact, obj, g, op, fact0, obj0, g0, hist, seq, chk, rep, last_failure, iter, subject, optimised>>

\* a check of the value satisfy returned
CheckAfterSatisfy ==
    /\ pc = "returned"
    /\ chk' = Check(fact, obj)
    /\ pc' = "verified"
    /\ UNCHANGED <<fact, obj, g, op, fact0, obj0, g0, hist, seq, rep, last_failure, msg, iter, subject, optimised>>

Next ==
    \/ CheckOp
    \/ ReplayOp
    \/ MutateOp
    \/ CheckAfterMutate
    \/ AdvanceOp
    \/ BruteCall
    \/ BruteIteration
    \/ BrutePanics
    \/ SatisfyCall
    \/ BuildCall
    \/ SatisfyMutate
    \/ SatisfyCheck
    \/ SatisfyPanic
    \/ CheckAfterSatisfy

Spec == Init /\ [][Next]_vars

\* every call runs to completion: a call that can take a step takes it
FairSpec == Spec /\ WF_vars(Next)

---------------------------------------------------------------------------
(* The older predicates (predicates.rs): EqFact and InFact, whose check     *)
(* asserts instead of returning a Check, over arbitrary::Unstructured.      *)

\* predicates.rs:8-26: eq(constant) and ne(constant)
EqFact(eqop, c) == [kind |-> "EqFact", op |-> eqop, constant |-> c]

\* predicates.rs:28-37: in_iter(iter)
InFact(inner) == [kind |-> "InFact", inner |-> inner]

\* predicates.rs:67-70: the assertion of EqFact::check
EqFactAsserts(f, o) ==
    IF f.op = "Equal" THEN o = f.constant ELSE o # f.constant

\* predicates.rs:66-72: one activation of EqFact::check: the assertion, then
\* the call of self.check(obj), which an optimised build (opt) compiles into
\* a jump that runs on without end, and which otherwise takes one more of the
\* StackFrames frames the stack holds
EqFactCheckFrame(f, o, frames, opt) ==
    IF ~EqFactAsserts(f, o) THEN "panicked"
    ELSE IF opt THEN "EqFact::check"
    ELSE IF frames < StackFrames THEN "EqFact::check"
    ELSE "stack_overflow"

\* a call of EqFact::check
EqFactCheckCall ==
    /\ pc = "idle"
    /\ fact.kind = "EqFact"
    /\ op' = "check"
    /\ iter' = 0
    /\ pc' = "EqFact::check"
    /\ UNCHANGED <<fact, obj, g, fact0, obj0, g0, hist, seq, chk, rep, last_failure, msg, subject, optimised>>

\* predicates.rs:66-72
EqFactCheckBody ==
    /\ pc = "EqFact::check"
    /\ iter' = IF optimised THEN 1 ELSE iter + 1
    /\ pc' = EqFactCheckFrame(fact, obj, iter', optimised)
    /\ msg' = IF pc' = "panicked" THEN [kind |-> "assert"]
              ELSE IF pc' = "stack_overflow" THEN [kind |-> "stack overflow"]
              ELSE msg
    /\ UNCHANGED <<fact, obj, g, op, fact0, obj0, g0, hist, seq, chk, rep, last_failure, subject, optimised>>

\* predicates.rs:74-76: EqFact::mutate; Equal overwrites, NotEqual enters its loop
EqFactMutateCall ==
    /\ pc = "idle"
    /\ fact.kind = "EqFact"
    /\ op' = "mutate"
    /\ iter' = 0
    /\ IF fact.op = "Equal"
       THEN /\ obj' = fact.constant
            /\ pc' = "mutated"
       ELSE /\ obj' = obj
            /\ pc' = "EqFact::mutate"
    /\ UNCHANGED <<fact, g, fact0, obj0, g0, hist, seq, chk, rep, last_failure, msg, subject, optimised>>

\* predicates.rs:77-82: one turn of the NotEqual loop
EqFactMutateLoop ==
    /\ pc = "EqFact::mutate"
    /\ \E a \in UArbitrary(g, subject, obj) :
        IF a.st # "Ok"
        THEN /\ pc' = "panicked"
             /\ msg' = [kind |-> "unwrap", text |-> a.why]
             /\ UNCHANGED <<obj, g, iter>>
        ELSE /\ obj' = a.val
             /\ g' = a.g
             /\ msg' = msg
             /\ IF a.val # fact.constant
                THEN pc' = "mutated" /\ iter' = iter
                ELSE pc' = "EqFact::mutate" /\ iter' = iter
    /\ UNCHANGED <<fact, op, fact0, obj0, g0, hist, seq, chk, rep, last_failure, subject, optimised>>

\* predicates.rs:99-101: InFact::check
InFactCheck(f, o) == IF Contains(f.inner, o) THEN "checked" ELSE "panicked"

InFactCheckCall ==
    /\ pc = "idle"
    /\ fact.kind = "InFact"
    /\ op' = "check"
    /\ pc' = InFactCheck(fact, obj)
    /\ msg' = IF pc' = "panicked" THEN [kind |-> "assert"] ELSE msg
    /\ UNCHANGED <<fact, obj, g, fact0, obj0, g0, hist, seq, chk, rep, last_failure, iter, subject, optimised>>

\* predicates.rs:103-106: InFact::mutate: choose, unwrap, then self.check(obj)
InFactMutate ==
    /\ pc = "idle"
    /\ fact.kind = "InFact"
    /\ op' = "mutate"
    /\ \E a \in UChoose(g, fact.inner, obj) :
        IF a.st # "Ok"
        THEN /\ pc' = "panicked"
             /\ msg' = [kind |-> "unwrap", text |-> a.why]
             /\ UNCHANGED <<obj, g>>
        ELSE /\ obj' = a.val
             /\ g' = a.g
             /\ pc' = IF InFactCheck(fact, a.val) = "checked" THEN "mutated" ELSE "panicked"
             /\ msg' = IF pc' = "panicked" THEN [kind |-> "assert"] ELSE msg
    /\ UNCHANGED <<fact, fact0, obj0, g0, hist, seq, chk, rep, last_failure, iter, subject, optimised>>

(* ---- OrFact: one of two constraints, picked by the entropy ---- *)

\* predicates.rs:39-50: or(a, b)
OrFact(a, b) == [kind |-> "OrFact", a |-> a, b |-> b]

RECURSIVE NeLoop(_, _, _, _)
\* predicates.rs:77-82: the NotEqual loop run to its end; a turn that draws
\* the constant and consumes nothing repeats without end ("Spin")
NeLoop(f, o, gen, t) ==
    UNION { IF a.val # f.constant THEN { Ok(a.val, a.g) }
            ELSE IF a.g = gen THEN { Err("Spin", a.val, a.g, "") }
            ELSE NeLoop(f, a.val, a.g, t) : a \in UArbitrary(gen, t, o) }

RECURSIVE ConstraintMutate(_, _, _, _)
\* Constraint::mutate as a callee: the outcomes of the whole call
ConstraintMutate(f, o, gen, t) ==
    CASE f.kind = "EqFact" /\ f.op = "Equal" -> { Ok(f.constant, gen) }
      [] f.kind = "EqFact" /\ f.op = "NotEqual" -> NeLoop(f, o, gen, t)
      [] f.kind = "InFact" ->
           { IF a.st = "Ok" THEN a ELSE Err("Panic", o, gen, "unwrap") :
               a \in UChoose(gen, f.inner, o) }
      [] f.kind = "OrFact" ->
           UNION { { IF r.st = "Ok" THEN Err("Panic", r.val, r.g, "todo") ELSE r :
                       r \in ConstraintMutate(IF c.val THEN f.a ELSE f.b, o, c.g, t) } :
                   c \in UChoose(gen, <<TRUE, FALSE>>, o) }

\* predicates.rs:130-132: OrFact::check is todo!()
OrFactCheckCall ==
    /\ pc = "idle"
    /\ fact.kind = "OrFact"
    /\ op' = "check"
    /\ pc' = "panicked"
    /\ msg' = [kind |-> "todo"]
    /\ UNCHANGED <<fact, obj, g, fact0, obj0, g0, hist, seq, chk, rep, last_failure, iter, subject, optimised>>

\* predicates.rs:134-141: OrFact::mutate: choose a side, mutate with it, then
\* self.check(obj), which panics; a side that never returns keeps the call
OrFactMutate ==
    /\ pc = "idle"
    /\ fact.kind = "OrFact"
    /\ op' = "mutate"
    /\ \E r \in ConstraintMutate(fact, obj, g, subject) :
        /\ obj' = r.val
        /\ g' = r.g
        /\ pc' = IF r.st = "Panic" THEN "panicked" ELSE "OrFact::mutate"
        /\ msg' = IF r.st = "Panic" THEN [kind |-> r.why] ELSE msg
    /\ UNCHANGED <<fact, fact0, obj0, g0, hist, seq, chk, rep, last_failure, iter, subject, optimised>>

PredicateFacts ==
    { EqFact(eqop, c) : eqop \in {"Equal", "NotEqual"}, c \in U32 }
        \cup { InFact(<<1, 2>>), InFact(<<0>>), InFact(<<2, 1, 0>>) }
        \cup { OrFact(EqFact("Equal", 1), EqFact("Equal", 2)),
               OrFact(InFact(<<1, 2>>), EqFact("NotEqual", 0)) }

InitPredicates ==
    \E f \in PredicateFacts :
        \E o \in Universe("u32") :
            \E bytes \in Entropies("u32", MaxEntropy) :
                \E opt \in BOOLEAN :
                    InitWith(<<"u32", f>>, o, bytes) /\ optimised = opt

NextPredicates ==
    \/ EqFactCheckCall
    \/ EqFactCheckBody
    \/ EqFactMutateCall
    \/ EqFactMutateLoop
    \/ InFactCheckCall
    \/ InFactMutate
    \/ OrFactCheckCall
    \/ OrFactMutate

SpecPredicates == InitPredicates /\ [][NextPredicates]_vars

\* a call that can take a step takes it: nothing suspends a synchronous call
FairPredicates == SpecPredicates /\ WF_vars(NextPredicates)

---------------------------------------------------------------------------
(* The Omega facts of tests/complex.rs.                                     *)

\* complex.rs:125-134
pi_beta_match ==
    facts(<< brute("Pi alpha has matching beta iff beta is Some", "pi_beta_match", "Pi") >>)

\* complex.rs:138-149
pi_fact(id, data) ==
    LET alpha_fact == facts(<< lens("Alpha::id", "Alpha::id", eq("id", id)),
                               lens("Alpha::data", "Alpha::data", eq("data", data)) >>)
        beta_fact == lens("Beta::id", "Beta::id", eq("id", id))
    IN  facts(<< pi_beta_match,
                 lens("Pi::alpha", "Pi::alpha", alpha_fact),
                 prism("Pi::beta", "Pi::beta", beta_fact) >>)

\* complex.rs:156-177
omega_fact(id, data) ==
    LET omega_pi == lens("Omega -> Pi", "Omega -> Pi", pi_fact(id, data))
    IN  facts(<< omega_pi, lens("Omega::id", "Omega::id", eq("id", id)) >>)

AlphaUniverse == { ArbAlpha(b) : b \in 0 .. 11 }
BetaUniverse == { ArbBeta(b) : b \in 0 .. 1 }
OmegaUniverse ==
    { OmegaAlphaBeta(id, a, b) : id \in Ids, a \in AlphaUniverse, b \in BetaUniverse }
        \cup { OmegaAlpha(id, a) : id \in Ids, a \in AlphaUniverse }

\* complex.rs:199: omega_fact(11, "spartacus"); the draws of its brute fact are Pi values
InitOmega ==
    \E o \in OmegaUniverse :
        \E bytes \in Entropies("Pi", OmegaEntropy) :
            InitWith(<<"Omega", omega_fact(11, "spartacus")>>, o, bytes) /\ optimised = FALSE

NextOmega ==
    \/ CheckOp
    \/ ReplayOp
    \/ MutateOp
    \/ CheckAfterMutate

SpecOmega == InitOmega /\ [][NextOmega]_vars

---------------------------------------------------------------------------
(* Sequences: build_seq and check_seq on the composite of prism.rs's test.  *)

\* prism.rs:140: the number of items the test builds
SeqLen == 6

\* the longest entropy buffer a sequence is built from
SeqEntropy == 4

\* prism.rs:131-138: the entropy and a fresh composite f()
InitSeq ==
    \E bytes \in Entropies("E", SeqEntropy) :
        InitWith(<<"E", PrismTestFacts>>, Arb("E", 0), bytes) /\ optimised = FALSE

\* prism.rs:140: build_seq(&mut u, 6, f())
BuildSeqCall ==
    /\ pc = "idle"
    /\ op' = "build_seq"
    /\ iter' = 0
    /\ seq' = << >>
    /\ pc' = "build_seq"
    /\ UNCHANGED <<fact, obj, g, fact0, obj0, g0, hist, chk, rep, last_failure, msg, subject, optimised>>

\* one item: T::arbitrary(u).unwrap()
BuildSeqArbitrary ==
    /\ pc = "build_seq"
    /\ iter < SeqLen
    /\ \E a \in UArbitrary(g, subject, obj) :
        IF a.st # "Ok"
        THEN /\ pc' = "panicked"
             /\ msg' = [kind |-> "unwrap", text |-> a.why]
             /\ UNCHANGED <<obj, g>>
        ELSE /\ obj' = a.val
             /\ g' = a.g
             /\ pc' = "build_seq_mutate"
             /\ msg' = msg
    /\ UNCHANGED <<fact, op, fact0, obj0, g0, hist, seq, chk, rep, last_failure, iter, subject, optimised>>

\* one item: fact.mutate(&mut obj, u), the fact advances, the item is pushed
BuildSeqMutate ==
    /\ pc = "build_seq_mutate"
    /\ LET r == Mutate(fact, obj, g) IN
        /\ rep' = r
        /\ obj' = r.val
        /\ g' = r.g
        /\ IF r.st = "Ok"
           THEN /\ seq' = Append(seq, r.val)
                /\ fact' = Advance(fact)
                /\ iter' = iter + 1
                /\ pc' = "build_seq"
                /\ msg' = msg
           ELSE /\ pc' = IF r.st = "Panic" THEN "panicked" ELSE "failed"
                /\ msg' = IF r.st = "Panic" THEN PanicOf(r) ELSE msg
                /\ UNCHANGED <<seq, fact, iter>>
    /\ UNCHANGED <<op, fact0, obj0, g0, hist, chk, last_failure, subject, optimised>>

\* build_seq returns the items
BuildSeqReturn ==
    /\ pc = "build_seq"
    /\ iter >= SeqLen
    /\ pc' = "built"
    /\ UNCHANGED <<fact, obj, g, op, fact0, obj0, g0, hist, seq, chk, rep, last_failure, msg, iter, subject, optimised>>

\* prism.rs:141: check_seq(seq.as_slice(), f()) on a fresh composite
CheckSeqCall ==
    /\ pc = "built"
    /\ op' = "check_seq"
    /\ fact' = fact0
    /\ chk' = << >>
    /\ iter' = 0
    /\ pc' = "check_seq"
    /\ UNCHANGED <<obj, g, fact0, obj0, g0, hist, seq, rep, last_failure, msg, subject, optimised>>

\* one item: its violations are collected under its index, the fact advances
CheckSeqItem ==
    /\ pc = "check_seq"
    /\ iter < Len(seq)
    /\ chk' = chk \o MapCheck(Check(fact, seq[iter + 1]), "item " \o ToString(iter) \o ": ")
    /\ fact' = Advance(fact)
    /\ iter' = iter + 1
    /\ UNCHANGED <<obj, g, pc, op, fact0, obj0, g0, hist, seq, rep, last_failure, msg, subject, optimised>>

\* check_seq returns the collected violations
CheckSeqReturn ==
    /\ pc = "check_seq"
    /\ iter >= Len(seq)
    /\ pc' = "seq_checked"
    /\ UNCHANGED <<fact, obj, g, op, fact0, obj0, g0, hist, seq, chk, rep, last_failure, msg, iter, subject, optimised>>

NextSeq ==
    \/ BuildSeqCall
    \/ BuildSeqArbitrary
    \/ BuildSeqMutate
    \/ BuildSeqReturn
    \/ CheckSeqCall
    \/ CheckSeqItem
    \/ CheckSeqReturn

SpecSeq == InitSeq /\ [][NextSeq]_vars

---------------------------------------------------------------------------
(* Optical facts over a whole with several targeted elements.               *)

\* the most elements a traversal reaches
MaxTargets == 2

WholeUniverse ==
    { Whole(items, rest) :
        items \in UNION { [1 .. k -> U32] : k \in 0 .. MaxTargets }, rest \in U32 }

FactsWhole ==
    { optical("items", "items", eq("must be 1", 1)),
      optical("items", "items", in_slice("in_slice", <<1, 2>>)),
      optical("items", "items", brute("is even", "even", "u32")),
      optical("items", "items", consecutive(0)),
      optical("rest", "rest", in_slice("in_slice", <<1, 2>>)),
      facts(<< optical("items", "items", in_slice("in_slice", <<1, 2>>)),
               optical("rest", "rest", eq("must be 1", 1)) >>) }

InitOptical ==
    \E f \in FactsWhole :
        \E o \in WholeUniverse :
            \E bytes \in Entropies("u32", MaxEntropy) :
                InitWith(<<"Whole", f>>, o, bytes) /\ optimised = FALSE

\* optical.rs:102-106: fact.advance(&obj)
OpticalAdvanceOp ==
    /\ pc = "idle"
    /\ fact.kind = "optical"
    /\ op' = "advance"
    /\ fact' = OpticalAdvance(fact, obj)
    /\ pc' = "advanced"
    /\ UNCHANGED <<obj, g, fact0, obj0, g0, hist, seq, chk, rep, last_failure, msg, iter, subject, optimised>>

NextOptical ==
    \/ CheckOp
    \/ ReplayOp
    \/ MutateOp
    \/ CheckAfterMutate
    \/ OpticalAdvanceOp

SpecOptical == InitOptical /\ [][NextOptical]_vars

---------------------------------------------------------------------------
(* Properties.                                                              *)

\* C1: whenever satisfy (called directly or by build) returns, a check of the
\* value it returned is empty.
C1_SatisfyReturnsChecked ==
    pc = "verified" => chk = << >>

\* satisfy returned after more than one attempt, with a changed value that
\* was then checked
C1_Witness ==
    /\ pc = "verified"
    /\ op = "satisfy"
    /\ Len(hist) >= 2
    /\ obj # obj0

\* the attempts satisfy has begun: the checks made, and the mutate under way
Attempts == Len(hist) + (IF pc = "satisfy_check" THEN 1 ELSE 0)

\* satisfy runs at most n attempts of {mutate; check}, returns right after
\* the first attempt whose check is empty, and panics after the n-th failed
\* attempt with that attempt's violations
SatisfyWithin(n) ==
    op \in {"satisfy", "build"} =>
        /\ Attempts <= n
        /\ \A k \in 1 .. (Len(hist) - 1) : hist[k] # << >>
        /\ (pc = "satisfy_loop" /\ Len(hist) > 0) => hist[Len(hist)] # << >>
        /\ pc \in {"returned", "verified"} =>
              /\ hist[Len(hist)] = << >>
              /\ rep.st = "Ok"
              /\ obj = rep.val
              /\ g = rep.g
        /\ (pc = "panicked" /\ msg.kind = "satisfy") =>
              /\ Len(hist) = n
              /\ msg.iterations = n
              /\ msg.last_failure = hist[n]
              /\ hist[n] # << >>
        /\ (pc = "satisfy_loop" /\ Len(hist) = n) => ~ENABLED SatisfyMutate

\* C2 (as stated): satisfy runs at most 7 attempts and fails fatally after
\* the 7th failed attempt.
C2_SevenAttempts == SatisfyWithin(7)

\* C2 (amended): satisfy runs at most 10 attempts (fact.rs:5) of
\* {mutate; check}, returns right after the first attempt whose check is
\* empty, and panics after the 10th failed attempt, reporting the violations
\* of that last check.
C2_TenAttempts == SatisfyWithin(10)

\* satisfy gave up after all its attempts
C2_Witness ==
    /\ pc = "panicked"
    /\ op = "satisfy"
    /\ msg.kind = "satisfy"
    /\ Len(hist) = 10

\* C3: check(v) is empty iff mutate on a copy of v under a CheckOnly
\* generator returns a value equal to v and reports no failure.
C3_CheckIffReplayClean ==
    pc = "replayed" => (chk = << >> <=> (rep.st = "Ok" /\ rep.val = obj))

\* a membership fact whose check and replay both report the absent value
C3_Witness ==
    /\ pc = "replayed"
    /\ fact.kind = "in_slice"
    /\ chk # << >>
    /\ rep.st = "Check"

\* C4 (as stated): eq(c).mutate(v) yields c and consumes no entropy, and
\* eq(c).check(v) returns, reporting a violation iff v != c.
C4_EqMutatesAndChecks ==
    (fact.kind = "EqFact" /\ fact.op = "Equal") =>
        /\ (op = "mutate" /\ pc # "idle") =>
              (pc = "mutated" /\ obj = fact.constant /\ g = g0)
        /\ (op = "check" /\ pc # "EqFact::check") =>
              \/ (pc = "checked" /\ obj = fact.constant)
              \/ (pc = "panicked" /\ obj # fact.constant)

\* C5 (as stated): a membership fact over a non-empty set leaves a member
\* unchanged and consumes no entropy, and replaces a non-member by a member.
C5_MembershipMutate ==
    (fact.kind = "InFact" /\ fact.inner # << >> /\ pc = "mutated") =>
        IF Contains(fact.inner, obj0)
        THEN obj = obj0 /\ g = g0
        ELSE Contains(fact.inner, obj)

\* C6: a prism fact whose accessor reaches nothing in the whole checks empty
\* and mutates nothing, consuming no entropy, whatever its inner fact.
C6_PrismAbsent ==
    (fact.kind = "prism" /\ Get(fact.prism, obj0) = None) =>
        /\ pc \in {"checked", "replayed"} => chk = << >>
        /\ (op = "mutate" /\ pc # "idle") =>
              (pc \in {"mutated", "mutate_checked"} /\ obj = obj0 /\ g = g0)

\* an absent prism over an unsatisfiable inner fact was mutated
C6_Witness ==
    /\ fact.kind = "prism"
    /\ fact.inner_fact.kind = "brute"
    /\ fact.inner_fact.f = "never"
    /\ Get(fact.prism, obj0) = None
    /\ pc = "mutated"
    /\ g0.bytes # << >>

\* C7 (as stated): advance of a prism fact whose accessor reaches nothing in
\* the current item leaves the inner fact's state as it was.
C7_PrismAdvanceAbsent ==
    (pc = "advanced" /\ fact0.kind = "prism" /\ Get(fact0.prism, obj) = None) =>
        fact.inner_fact = fact0.inner_fact

\* the draws a call has consumed
Drawn == Len(g0.bytes) - Len(g.bytes)

\* what holds at every point of a call on an always-false brute fact
BruteNeverInv ==
    (fact.kind = "brute" /\ fact.f = "never"
        /\ op \in {"mutate", "brute_mutate", "build", "satisfy"}) =>
        /\ pc \in {"satisfy_loop", "brute_loop", "panicked", "failed"}
        /\ iter <= BRUTE_ITERATION_LIMIT + 1
        /\ pc = "panicked" =>
              /\ msg.kind \in {"brute", "unwrap"}
              /\ msg.kind = "brute" =>
                    /\ msg.text = "Exceeded iteration limit of "
                                    \o ToString(BRUTE_ITERATION_LIMIT)
                                    \o " while attempting to meet a BruteFact. Last failure reason: never"
                    /\ Drawn = BRUTE_ITERATION_LIMIT + 1 + (IF op = "build" THEN 1 ELSE 0)
        /\ (pc \in {"panicked", "failed"} /\ Len(g0.bytes) >= AmpleEntropy) =>
              (pc = "panicked" /\ msg.kind = "brute")
        /\ pc = "failed" => (rep.st = "Exhausted" /\ g.bytes = << >>)

\* C8: mutate and build of a brute fact whose predicate is always false never
\* return a value and always end; with ample entropy they end in the panic
\* that names the iteration limit and the last failure reason, after one draw
\* per iteration of the limit's loop.
C8_BruteNeverEnds ==
    /\ []BruteNeverInv
    /\ (fact.kind = "brute" /\ fact.f = "never" /\ pc \in {"brute_loop", "satisfy_loop"})
          ~> (pc \in {"panicked", "failed"})

\* build over an always-false brute fact hit the iteration limit
C8_Witness ==
    /\ fact.kind = "brute"
    /\ fact.f = "never"
    /\ op = "build"
    /\ pc = "panicked"
    /\ msg.kind = "brute"
    /\ Drawn = BRUTE_ITERATION_LIMIT + 2

IsStructural(f) == f.kind \in {"lens", "prism"}

\* C9 (as stated): after the composite [B, A] (B structural, then the brute
\* A) has mutated, B's check of the result is empty.
C9_StructuralFirstKeepsB ==
    ( /\ fact.kind = "facts"
      /\ Len(fact.facts) = 2
      /\ IsStructural(fact.facts[1])
      /\ fact.facts[2].kind = "brute"
      /\ op = "mutate"
      /\ pc = "mutated" ) =>
        Check(fact.facts[1], obj) = << >>

\* C9 (amended): after the composite [A, B] (the brute A first, then the
\* structural B) has mutated, B's check of the result is empty.
C9_BruteFirstKeepsB ==
    ( /\ fact.kind = "facts"
      /\ Len(fact.facts) = 2
      /\ fact.facts[1].kind = "brute"
      /\ IsStructural(fact.facts[2])
      /\ op = "mutate"
      /\ pc = "mutated" ) =>
        Check(fact.facts[2], obj) = << >>

\* [A, B]: A resampled a Y into an X and B then set its target
C9_Witness ==
    /\ fact = facts(<< WeakA, StrongPrism >>)
    /\ op = "mutate"
    /\ pc = "mutated"
    /\ obj0.tag = "Y"
    /\ obj = EValue("X", 1)
    /\ Drawn >= 1

\* C10 (as stated): one mutate of omega_fact(id, data) on any Omega value
\* yields a value whose check is empty.
C10_OneMutateSatisfies ==
    pc = "mutate_checked" => chk = << >>

\* C10 (amended): one mutate of omega_fact(id, data) yields a value whose
\* check is empty unless the value's alpha is an Alpha::Beta whose beta
\* carries another id than `id`; the check then reports exactly the
\* pi_beta_match violation.
C10_OneMutateUnlessBetaId ==
    (pc = "mutate_checked" /\ subject = "Omega") =>
        IF obj.alpha.tag = "Beta" /\ obj.alpha.beta.id # 11
        THEN chk = << "lens(Omega -> Pi) > Pi alpha has matching beta iff beta is Some" >>
        ELSE chk = << >>

\* an Omega::Alpha holding an Alpha::Beta (four violations) was repaired by
\* one mutate that resampled its Pi
C10_Witness ==
    /\ subject = "Omega"
    /\ pc = "mutate_checked"
    /\ chk = << >>
    /\ obj0.tag = "Alpha"
    /\ obj0.alpha.tag = "Beta"
    /\ obj0.id # 11
    /\ Len(Check(fact, obj0)) = 4
    /\ Drawn = 1

\* C11: every value of the sequence of 6 that build_seq produces from the
\* composite [prism(E::x, eq 1), prism(E::y, eq 2)] carries the constant of
\* its active variant (X holds 1 or Y holds 2), and check_seq of the built
\* sequence against a fresh copy of the composite reports no violation.
C11_SequenceOfSix ==
    /\ \A k \in 1 .. Len(seq) :
        \/ seq[k].tag = "X" /\ seq[k].n = 1
        \/ seq[k].tag = "Y" /\ seq[k].n = 2
    /\ pc \in {"built", "check_seq", "seq_checked"} => Len(seq) = SeqLen
    /\ pc \in {"check_seq", "seq_checked"} => chk = << >>

\* six items were built from entropy that drew both variants with other
\* payloads, and the fresh composite has checked all of them
C11_Witness ==
    /\ pc = "seq_checked"
    /\ Len(seq) = SeqLen
    /\ iter = SeqLen
    /\ fact = fact0
    /\ \E j, k \in 1 .. Len(seq) : seq[j].tag = "X" /\ seq[k].tag = "Y"
    /\ Len(g0.bytes) >= 2
    /\ \A k \in 1 .. Len(g0.bytes) : Arb("E", g0.bytes[k]) # seq[k]


\* C12 (as stated): ne(c).mutate on a finite entropy buffer always ends:
\* it returns a value different from c or reports that the entropy ran out;
\* it neither loops forever nor crashes.
C12_NeMutateTerminates ==
    (fact.kind = "EqFact" /\ fact.op = "NotEqual" /\ pc = "EqFact::mutate")
        ~> \/ (fact.kind = "EqFact" /\ pc = "mutated" /\ obj # fact.constant)
           \/ pc = "failed"

\* the failing leaf constraints of omega_fact(11, "spartacus") on an Omega,
\* counted from the value: the match of alpha and beta, alpha's id, alpha's
\* data, the id of a present beta, Omega's id
OmegaLeafFailures(o) ==
    LET p == Get("Omega -> Pi", o)[1]
        n(b) == IF b THEN 1 ELSE 0
    IN  n(~PiBetaMatches(p)) + n(p.alpha.id # 11) + n(p.alpha.data # "spartacus")
          + n(p.beta # None /\ p.beta[1].id # 11) + n(o.id # 11)

\* complex.rs:226-242: the invalid values of the test (ids other than 11)
Invalid1 == OmegaAlpha(3, AlphaBeta(3, Beta(3, "cheese"), "cheese"))
Invalid2 == OmegaAlphaBeta(3, AlphaNil(3, "cheese"), Beta(3, "cheese"))

\* C13: the check of an ordered composite is the concatenation, in member
\* order, of its members' checks of the same value: it is empty iff every
\* member's check is empty, it holds one violation per failing leaf
\* constraint (an absent prism target adds none), and it counts 4 and 5
\* violations on the two invalid Omega values of the test.
C13_CompositeCheckConcatenates ==
    (subject = "Omega" /\ pc = "checked") =>
        LET c1 == Check(fact.facts[1], obj)
            c2 == Check(fact.facts[2], obj)
        IN  /\ Len(fact.facts) = 2
            /\ chk = c1 \o c2
            /\ (chk = << >>) <=> (c1 = << >> /\ c2 = << >>)
            /\ Len(chk) = Len(c1) + Len(c2)
            /\ Len(chk) = OmegaLeafFailures(obj)
            /\ obj = Invalid1 => Len(chk) = 4
            /\ obj = Invalid2 => Len(chk) = 5

\* the second invalid value of the test was checked: both members failed,
\* five violations in all, the first from the brute fact under the lens
C13_Witness ==
    /\ subject = "Omega"
    /\ pc = "checked"
    /\ obj = Invalid2
    /\ Len(chk) = 5
    /\ Check(fact.facts[1], obj) # << >>
    /\ Check(fact.facts[2], obj) # << >>
    /\ chk[1] = "lens(Omega -> Pi) > Pi alpha has matching beta iff beta is Some"

\* the generators a call that started with gen can be left with
Suffixes(gen) ==
    { [gen EXCEPT !.bytes = SubSeq(gen.bytes, k, Len(gen.bytes))] :
        k \in 1 .. (Len(gen.bytes) + 1) }

\* the parts of a whole that the optics do not target are as they were
UntargetedUnchanged ==
    /\ fact.optics = "items" => obj.rest = obj0.rest
    /\ fact.optics = "rest" => obj.items = obj0.items

OpticalMutated ==
    subject = "Whole" /\ fact.kind = "optical" /\ op = "mutate" /\ pc = "mutated"

\* C14 (as stated): optical mutate gives each targeted element a new value
\* that is a function of that element's own original value only (the same
\* fact and entropy give the same new value in every whole that holds the
\* element), and leaves the untargeted parts unchanged.
C14_OwnValueOnly ==
    OpticalMutated =>
        /\ UntargetedUnchanged
        /\ \A w \in WholeUniverse :
            LET r == Mutate(fact0, w, g0) IN
            \A i \in 1 .. Len(Traverse(fact.optics, obj0)) :
                (/\ r.st = "Ok"
                 /\ i <= Len(Traverse(fact.optics, w))
                 /\ Traverse(fact.optics, w)[i] = Traverse(fact.optics, obj0)[i])
                    => Traverse(fact.optics, r.val)[i] = Traverse(fact.optics, obj)[i]

\* C14 (amended): optical mutate applies the inner mutate to each targeted
\* element in traversal order, each on that element's own original value and
\* on the generator as the elements before it left it: an element's new
\* value depends on its own original value and, through the entropy they
\* consumed, on the original values of the elements before it, never on a
\* sibling's new value; the untargeted parts are unchanged.
C14_OwnValueUnderThreadedEntropy ==
    OpticalMutated =>
        LET old == Traverse(fact.optics, obj0)
            new == Traverse(fact.optics, obj)
            N == Len(old)
        IN  /\ UntargetedUnchanged
            /\ Len(new) = N
            /\ \E gs \in [1 .. (N + 1) -> Suffixes(g0)] :
                /\ gs[1] = g0
                /\ gs[N + 1] = g
                /\ \A i \in 1 .. N :
                    Mutate(fact.inner_fact, old[i], gs[i]) = Ok(new[i], gs[i + 1])
            /\ \A w \in WholeUniverse :
                LET r == Mutate(fact0, w, g0) IN
                \A i \in 1 .. N :
                    (/\ r.st = "Ok"
                     /\ i <= Len(Traverse(fact.optics, w))
                     /\ \A j \in 1 .. i :
                          Traverse(fact.optics, w)[j] = old[j])
                        => Traverse(fact.optics, r.val)[i] = new[i]

\* two targeted elements were both replaced, each by its own draw
C14_Witness ==
    /\ OpticalMutated
    /\ fact.optics = "items"
    /\ Len(obj0.items) = 2
    /\ obj.items[1] # obj0.items[1]
    /\ obj.items[2] # obj0.items[2]
    /\ obj.items[1] # obj.items[2]
    /\ obj0.items[1] = obj0.items[2]
    /\ Len(g.bytes) = Len(g0.bytes) - 2

====
